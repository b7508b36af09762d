--------------------------- MODULE EventFeedProofs ---------------------------
(***************************************************************************)
(* Theorems about EventFeed for every set of connections and targets.      *)
(***************************************************************************)
EXTENDS EventFeed, FiniteSetTheorems, SequenceTheorems, TLAPS

-----------------------------------------------------------------------------
(* Sequences of event numbers *)

(* An event that enters the mailbox comes after all there is, and one that  *)
(* is received moves from its one half to the other.                        *)
LEMMA StreamMoves ==
  ASSUME NEW s \in Seq(Nat), NEW t \in Seq(Nat)
  PROVE  /\ \A e \in Nat : s \o Append(t, e) = Append(s \o t, e)
         /\ t # <<>> => Append(s, Head(t)) \o Tail(t) = s \o t
<1>1. ASSUME NEW e \in Nat PROVE s \o Append(t, e) = Append(s \o t, e)
  <2>1. s \o t \in Seq(Nat) /\ <<e>> \in Seq(Nat)
    OBVIOUS
  <2>2. Append(t, e) = t \o <<e>> /\ Append(s \o t, e) = (s \o t) \o <<e>>
    BY <2>1, AppendIsConcat
  <2>3. (s \o t) \o <<e>> = s \o (t \o <<e>>)
    BY <2>1, ConcatAssociative
  <2> QED
    BY <2>2, <2>3
<1>2. ASSUME t # <<>> PROVE Append(s, Head(t)) \o Tail(t) = s \o t
  <2>1. Head(t) \in Nat /\ Tail(t) \in Seq(Nat) /\ <<Head(t)>> \in Seq(Nat)
    BY <1>2
  <2>2. t = <<Head(t)>> \o Tail(t)
    BY <1>2, <2>1
  <2>3. Append(s, Head(t)) = s \o <<Head(t)>>
    BY <2>1, AppendIsConcat
  <2>4. (s \o <<Head(t)>>) \o Tail(t) = s \o (<<Head(t)>> \o Tail(t))
    BY SMTT(20), <2>1, ConcatAssociative
  <2> QED
    BY <2>2, <2>3, <2>4
<1> QED
  BY <1>1, <1>2

(* A sequence s of some of the numbers due: in order, and before each of    *)
(* its numbers every smaller one that is due.                               *)
Orderly(s, due) ==
  /\ \A i \in 1 .. Len(s) : s[i] \in due
  /\ \A i, j \in 1 .. Len(s) : i < j => s[i] < s[j]
  /\ \A i \in 1 .. Len(s) : \A n \in due : n < s[i] => \E j \in 1 .. i - 1 : s[j] = n

(* ... and of all of them.                                                  *)
Complete(s, due) == \A n \in due : \E j \in 1 .. Len(s) : s[j] = n

(* The first numbers of such a sequence are one.                            *)
LEMMA OrderlyPrefix ==
  ASSUME NEW s \in Seq(Nat), NEW t \in Seq(Nat), NEW due, Orderly(s, due),
         Len(t) <= Len(s), \A i \in 1 .. Len(t) : t[i] = s[i]
  PROVE  Orderly(t, due)
<1>1. \A i \in 1 .. Len(t) : i \in 1 .. Len(s) /\ \A j \in 1 .. i - 1 : j \in 1 .. Len(t)
  OBVIOUS
<1>2. ASSUME NEW i \in 1 .. Len(t), NEW n \in due, n < t[i]
      PROVE  \E j \in 1 .. i - 1 : t[j] = n
  <2>1. PICK j \in 1 .. i - 1 : s[j] = n
    BY <1>1, <1>2 DEF Orderly
  <2> QED
    BY <1>1, <2>1
<1> QED
  BY <1>1, <1>2 DEF Orderly

(* A number greater than all those due becomes due: whoever had them all    *)
(* takes it as the next, the others are left with what they have.           *)
LEMMA OrderlyNext ==
  ASSUME NEW s \in Seq(Nat), NEW due \in SUBSET Nat, NEW e \in Nat,
         Orderly(s, due), \A n \in due : n < e
  PROVE  /\ Orderly(s, due \cup {e})
         /\ Complete(s, due) => /\ Orderly(Append(s, e), due \cup {e})
                                /\ Complete(Append(s, e), due \cup {e})
<1>1. \A i \in 1 .. Len(s) : s[i] \in due /\ s[i] < e /\ s[i] \in Nat
  BY DEF Orderly
<1>2. Orderly(s, due \cup {e})
  BY <1>1 DEF Orderly
<1>3. ASSUME Complete(s, due)
      PROVE  Orderly(Append(s, e), due \cup {e}) /\ Complete(Append(s, e), due \cup {e})
  <2> DEFINE t == Append(s, e)
  <2>1. /\ t \in Seq(Nat) /\ Len(t) = Len(s) + 1 /\ t[Len(s) + 1] = e /\ Len(s) \in Nat
        /\ \A i \in 1 .. Len(s) : t[i] = s[i]
    OBVIOUS
  <2> HIDE DEF t
  <2>2. \A i \in 1 .. Len(t) : i \in 1 .. Len(s) \/ i = Len(s) + 1
    BY <2>1
  <2>3. \A i \in 1 .. Len(t) : t[i] \in due \cup {e}
    BY <1>1, <2>1, <2>2
  <2>4. ASSUME NEW i \in 1 .. Len(t), NEW j \in 1 .. Len(t), i < j
        PROVE  t[i] < t[j]
    <3>1. i \in 1 .. Len(s)
      BY <2>1, <2>4
    <3>2. CASE j = Len(s) + 1
      BY <1>1, <2>1, <3>1, <3>2
    <3>3. CASE j \in 1 .. Len(s)
      BY <2>1, <2>4, <3>1, <3>3 DEF Orderly
    <3> QED
      BY <2>2, <3>2, <3>3
  <2>5. ASSUME NEW i \in 1 .. Len(t), NEW n \in due \cup {e}, n < t[i]
        PROVE  \E j \in 1 .. i - 1 : t[j] = n
    <3>0. t[i] \in Nat /\ t[i] <= e
      <4>1. CASE i \in 1 .. Len(s)
        <5>1. t[i] = s[i]
          BY <2>1, <4>1
        <5>2. s[i] \in Nat /\ s[i] < e
          BY <1>1, <4>1
        <5> QED
          BY <5>1, <5>2
      <4>2. CASE i = Len(s) + 1
        BY <2>1, <4>2
      <4> QED
        BY <2>2, <4>1, <4>2
    <3>1. n \in due
      <4>1. CASE n = e
        BY <2>5, <3>0, <4>1
      <4>2. CASE n # e
        BY <4>2
      <4> QED
        BY <4>1, <4>2
    <3>2. CASE i = Len(s) + 1
      <4>1. PICK j \in 1 .. Len(s) : s[j] = n
        BY <1>3, <3>1 DEF Complete
      <4>2. j \in 1 .. i - 1 /\ t[j] = n
        BY <2>1, <3>2, <4>1
      <4> QED
        BY <4>2
    <3>3. CASE i \in 1 .. Len(s)
      <4>1. n < s[i]
        BY <2>1, <2>5, <3>3
      <4>2. PICK j \in 1 .. i - 1 : s[j] = n
        BY <3>1, <3>3, <4>1 DEF Orderly
      <4>3. j \in 1 .. Len(s)
        BY <2>1, <3>3
      <4> QED
        BY <2>1, <4>2, <4>3
    <3> QED
      BY <2>2, <3>2, <3>3
  <2>6. Complete(t, due \cup {e})
    <3>1. Len(s) + 1 \in 1 .. Len(t) /\ \A i \in 1 .. Len(s) : i \in 1 .. Len(t)
      BY <2>1
    <3>2. \A n \in due : \E j \in 1 .. Len(t) : t[j] = n
      BY <1>3, <2>1, <3>1 DEF Complete
    <3> QED
      BY <2>1, <3>1, <3>2 DEF Complete
  <2>7. Orderly(t, due \cup {e})
    BY <2>3, <2>4, <2>5 DEF Orderly
  <2> QED
    BY <2>6, <2>7 DEF t
<1> QED
  BY <1>2, <1>3

(* Before the i-th number there are i - 1 that are due.                     *)
LEMMA OrderlyCount ==
  ASSUME NEW s \in Seq(Nat), NEW due \in SUBSET Nat, Orderly(s, due), NEW i \in 1 .. Len(s)
  PROVE  Cardinality({n \in due : n < s[i]}) = i - 1
<1> DEFINE before == {n \in due : n < s[i]}
           f == [j \in 1 .. i - 1 |-> s[j]]
<1>0. i - 1 \in Nat /\ \A j \in 1 .. i - 1 : j \in 1 .. Len(s) /\ j < i
  OBVIOUS
<1>1. \A j \in 1 .. i - 1 : f[j] = s[j] /\ f[j] \in before
  BY <1>0 DEF Orderly
<1>2. f \in [1 .. i - 1 -> before]
  BY <1>1
<1>3. \A j, k \in 1 .. i - 1 : f[j] = f[k] => j = k
  <2> SUFFICES ASSUME NEW j \in 1 .. i - 1, NEW k \in 1 .. i - 1, f[j] = f[k], j < k
               PROVE  FALSE
    BY <1>0
  <2>1. s[j] < s[k] /\ s[j] = s[k] /\ s[j] \in Nat
    BY <1>0, <1>1 DEF Orderly
  <2> QED
    BY <2>1
<1>4. \A n \in before : \E j \in 1 .. i - 1 : f[j] = n
  BY <1>1 DEF Orderly
<1>5. f \in Bijection(1 .. i - 1, before)
  <2>1. f \in Injection(1 .. i - 1, before)
    BY <1>2, <1>3 DEF Injection, IsInjective
  <2>2. f \in Surjection(1 .. i - 1, before)
    BY <1>2, <1>4 DEF Surjection
  <2> QED
    BY <2>1, <2>2 DEF Bijection
<1>6. ExistsBijection(1 .. i - 1, before)
  BY <1>5 DEF ExistsBijection
<1>7. IsFiniteSet(1 .. i - 1) /\ Cardinality(1 .. i - 1) = i - 1
  BY <1>0, FS_Interval
<1> HIDE DEF before
<1>8. Cardinality(before) = Cardinality(1 .. i - 1)
  BY <1>6, <1>7, FS_Bijection
<1> QED
  BY <1>7, <1>8 DEF before
-----------------------------------------------------------------------------
(* The feed *)

TypeOK ==
  /\ published \in Seq(Targets)
  /\ listening \subseteq Clients
  /\ joinedAt \in [Clients -> Nat]
  /\ mailbox \in [Clients -> Seq(Nat)]
  /\ received \in [Clients -> Seq(Nat)]

(* What a client has received, and what waits for it.                       *)
Stream(c) == received[c] \o mailbox[c]

(* Why no client gets an event after one it missed: who listens has every   *)
(* event that is due to it, and the next one comes after them all; who has  *)
(* stopped to listen keeps a beginning of what it had, and gets no more.    *)
StreamInv(c) ==
  /\ joinedAt[c] <= Len(published)
  /\ Orderly(Stream(c), Due(c))
  /\ c \in listening => Complete(Stream(c), Due(c))

FeedInv == TypeOK /\ \A c \in Clients : StreamInv(c)

(* A client whose own variables do not change, while nothing is published.  *)
LEMMA StreamQuiet ==
  ASSUME NEW c, StreamInv(c), UNCHANGED published, joinedAt'[c] = joinedAt[c],
         mailbox'[c] = mailbox[c], received'[c] = received[c], c \in listening' => c \in listening
  PROVE  StreamInv(c)'
<1>1. Due(c)' = Due(c) /\ Stream(c)' = Stream(c)
  BY DEF Due, Stream, Addressed
<1> QED
  BY <1>1 DEF StreamInv

(* Every step keeps the invariant: a newcomer has nothing and nothing is    *)
(* due to it, and a receipt moves one event within the stream.              *)
LEMMA FeedStep == FeedInv /\ [Next]_vars => FeedInv'
<1> SUFFICES ASSUME FeedInv, [Next]_vars PROVE FeedInv'
  OBVIOUS
<1>0. TypeOK /\ \A c \in Clients : StreamInv(c)
  BY DEF FeedInv
<1>1. /\ published \in Seq(Targets) /\ Len(published) \in Nat /\ listening \subseteq Clients
      /\ joinedAt \in [Clients -> Nat] /\ mailbox \in [Clients -> Seq(Nat)]
      /\ received \in [Clients -> Seq(Nat)]
      /\ \A c \in Clients : mailbox[c] \in Seq(Nat) /\ received[c] \in Seq(Nat)
                            /\ Stream(c) \in Seq(Nat) /\ Due(c) \in SUBSET Nat
  BY <1>0 DEF TypeOK, Stream, Due
<1>2. ASSUME NEW c \in Clients, Join(c)
      PROVE  FeedInv'
  <2>1. TypeOK'
    BY <1>1, <1>2 DEF Join, TypeOK
  <2>2. StreamInv(c)'
    <3>1. joinedAt'[c] = Len(published) /\ Len(published') = Len(published)
      BY <1>1, <1>2 DEF Join
    <3>2. Due(c)' = {}
      BY <1>1, <3>1 DEF Due
    <3>3. Stream(c)' = <<>>
      BY <1>1, <1>2 DEF Join, Stream
    <3>4. Len(Stream(c)') = 0
      BY <3>3
    <3> QED
      BY <1>1, <3>1, <3>2, <3>4 DEF StreamInv, Orderly, Complete
  <2>3. ASSUME NEW d \in Clients, d # c
        PROVE  StreamInv(d)'
    BY <1>0, <1>1, <1>2, <2>3, StreamQuiet DEF Join
  <2> QED
    BY <2>1, <2>2, <2>3 DEF FeedInv
<1>3. ASSUME NEW target \in Targets, Publish(target)
      PROVE  FeedInv'
  <2> DEFINE e == Len(published) + 1
  <2>1. /\ published' \in Seq(Targets) /\ Len(published') = e /\ published'[e] = target
        /\ e \in Nat /\ \A n \in 1 .. Len(published) : published'[n] = published[n]
        /\ UNCHANGED <<listening, joinedAt, received>>
    BY <1>1, <1>3 DEF Publish
  <2>2. \A c \in Clients :
          mailbox'[c] = IF c \in listening /\ Addressed(c, target)
                        THEN Append(mailbox[c], e) ELSE mailbox[c]
    BY <1>1, <1>3, <2>1 DEF Publish
  <2>3. mailbox' \in [Clients -> Seq(Nat)]
    <3>1. mailbox' = [c \in Clients |-> IF c \in listening /\ Addressed(c, target)
                                        THEN Append(mailbox[c], e) ELSE mailbox[c]]
      BY <2>1, <1>3 DEF Publish
    <3>2. \A c \in Clients : Append(mailbox[c], e) \in Seq(Nat)
      BY <1>1, <2>1
    <3> QED
      BY <1>1, <3>1, <3>2
  <2> HIDE DEF e
  <2>4. TypeOK'
    BY <1>0, <2>1, <2>3 DEF TypeOK
  <2>5. ASSUME NEW c \in Clients
        PROVE  StreamInv(c)'
    <3>1. \A n \in Due(c) : n < e
      BY <1>1 DEF Due, e
    <3>2. \A n \in Nat : n \in joinedAt[c] + 1 .. e <=> n \in joinedAt[c] + 1 .. Len(published) \/ n = e
      BY <1>0, <1>1 DEF StreamInv, e
    <3>3. ASSUME Addressed(c, target) PROVE Due(c)' = Due(c) \cup {e}
      <4>1. Addressed(c, published'[e]) /\ joinedAt'[c] = joinedAt[c]
        BY <2>1, <3>3
      <4>2. \A n \in joinedAt[c] + 1 .. Len(published) :
              Addressed(c, published'[n]) <=> Addressed(c, published[n])
        BY <1>1, <2>1
      <4> QED
        BY <1>1, <2>1, <3>2, <4>1, <4>2 DEF Due, Addressed
    <3>4. ASSUME ~Addressed(c, target) PROVE Due(c)' = Due(c)
      <4>1. ~Addressed(c, published'[e]) /\ joinedAt'[c] = joinedAt[c]
        BY <2>1, <3>4
      <4>2. \A n \in joinedAt[c] + 1 .. Len(published) :
              Addressed(c, published'[n]) <=> Addressed(c, published[n])
        BY <1>1, <2>1
      <4>3. Due(c)' = {n \in joinedAt[c] + 1 .. e : Addressed(c, published'[n])}
        BY <2>1, <4>1 DEF Due, Addressed
      <4>4. ASSUME NEW n \in Due(c)' PROVE n \in Due(c)
        <5>1. n \in joinedAt[c] + 1 .. e /\ Addressed(c, published'[n])
          BY <4>3, <4>4
        <5>2. n \in Nat /\ n # e
          BY <1>1, <2>1, <4>1, <5>1
        <5>3. n \in joinedAt[c] + 1 .. Len(published)
          BY <3>2, <5>1, <5>2
        <5> QED
          BY <4>2, <5>1, <5>3 DEF Due
      <4>5. ASSUME NEW n \in Due(c) PROVE n \in Due(c)'
        <5>1. n \in joinedAt[c] + 1 .. Len(published) /\ Addressed(c, published[n])
          BY <4>5 DEF Due
        <5>2. n \in Nat
          BY <1>1, <5>1
        <5> QED
          BY <3>2, <4>2, <4>3, <5>1, <5>2
      <4> QED
        BY <4>4, <4>5
    <3>5. joinedAt'[c] <= Len(published')
      BY <1>0, <1>1, <2>1 DEF StreamInv, e
    <3> DEFINE s == Stream(c)
               due == Due(c)
    <3>6. s \in Seq(Nat) /\ due \in SUBSET Nat /\ Orderly(s, due) /\ \A n \in due : n < e
      BY <1>0, <1>1, <3>1 DEF StreamInv
    <3> HIDE DEF s, due
    <3>7. /\ Orderly(s, due \cup {e})
          /\ Complete(s, due) => /\ Orderly(Append(s, e), due \cup {e})
                                 /\ Complete(Append(s, e), due \cup {e})
      BY <2>1, <3>6, OrderlyNext
    <3>8. CASE c \in listening /\ Addressed(c, target)
      <4>1. received[c] \o Append(mailbox[c], e) = Append(received[c] \o mailbox[c], e)
        BY <1>1, <2>1, StreamMoves
      <4>2. Stream(c)' = Append(Stream(c), e)
        BY <2>1, <2>2, <3>8, <4>1 DEF Stream
      <4>3. Orderly(Stream(c)', Due(c)') /\ Complete(Stream(c)', Due(c)')
        BY <1>0, <3>3, <3>8, <3>7, <4>2 DEF StreamInv, s, due
      <4> QED
        BY <3>5, <4>3 DEF StreamInv
    <3>9. CASE c \notin listening /\ Addressed(c, target)
      <4>1. Stream(c)' = Stream(c)
        BY <2>1, <2>2, <3>9 DEF Stream
      <4>2. Orderly(Stream(c)', Due(c)')
        BY <3>3, <3>9, <3>7, <4>1 DEF s, due
      <4> QED
        BY <2>1, <3>5, <3>9, <4>2 DEF StreamInv
    <3>10. CASE ~Addressed(c, target)
      <4>1. Stream(c)' = Stream(c)
        BY <2>1, <2>2, <3>10 DEF Stream
      <4> QED
        BY <1>0, <2>1, <3>4, <3>5, <3>10, <4>1 DEF StreamInv
    <3> QED
      BY <3>8, <3>9, <3>10
  <2> QED
    BY <2>4, <2>5 DEF FeedInv
<1>4. ASSUME NEW c \in Clients, Receive(c)
      PROVE  FeedInv'
  <2>1. mailbox[c] # <<>> /\ UNCHANGED <<published, listening, joinedAt>>
    BY <1>4 DEF Receive
  <2>2. /\ Head(mailbox[c]) \in Nat /\ Tail(mailbox[c]) \in Seq(Nat)
        /\ Append(received[c], Head(mailbox[c])) \in Seq(Nat)
    BY <1>1, <2>1
  <2>3. /\ received' = [received EXCEPT ![c] = Append(received[c], Head(mailbox[c]))]
        /\ mailbox' = [mailbox EXCEPT ![c] = Tail(mailbox[c])]
    BY <1>4 DEF Receive
  <2>4. TypeOK'
    BY <1>0, <1>1, <2>1, <2>2, <2>3 DEF TypeOK
  <2>5. Stream(c)' = Stream(c)
    <3>1. Stream(c)' = Append(received[c], Head(mailbox[c])) \o Tail(mailbox[c])
      BY <1>1, <2>3 DEF Stream
    <3>2. Append(received[c], Head(mailbox[c])) \o Tail(mailbox[c]) = received[c] \o mailbox[c]
      BY <1>1, <2>1, StreamMoves
    <3> QED
      BY <3>1, <3>2 DEF Stream
  <2>6. StreamInv(c)'
    BY <1>0, <2>1, <2>5 DEF StreamInv, Due, Addressed
  <2>7. ASSUME NEW d \in Clients, d # c
        PROVE  StreamInv(d)'
    BY <1>0, <1>1, <2>1, <2>3, <2>7, StreamQuiet
  <2> QED
    BY <2>4, <2>6, <2>7 DEF FeedInv
<1>5. ASSUME NEW c \in Clients, CutOff(c)
      PROVE  FeedInv'
  <2>1. PICK n \in 0 .. Len(mailbox[c]) : mailbox' = [mailbox EXCEPT ![c] = SubSeq(mailbox[c], 1, n)]
    BY <1>5 DEF CutOff
  <2>2. listening' = listening \ {c} /\ UNCHANGED <<published, joinedAt, received>>
    BY <1>5 DEF CutOff
  <2> DEFINE rest == SubSeq(mailbox[c], 1, n)
  <2>3. /\ rest \in Seq(Nat) /\ Len(rest) = n /\ n <= Len(mailbox[c])
        /\ \A i \in 1 .. n : rest[i] = mailbox[c][i]
    BY <1>1
  <2> HIDE DEF rest
  <2>4. mailbox' = [mailbox EXCEPT ![c] = rest] /\ mailbox'[c] = rest
    BY <1>1, <2>1 DEF rest
  <2>5. TypeOK'
    BY <1>0, <1>1, <2>2, <2>3, <2>4 DEF TypeOK
  <2>6. StreamInv(c)'
    <3>1. Stream(c)' = received[c] \o rest
      BY <2>2, <2>4 DEF Stream
    <3>2. /\ received[c] \o rest \in Seq(Nat)
          /\ Len(received[c] \o rest) <= Len(received[c] \o mailbox[c])
          /\ \A i \in 1 .. Len(received[c] \o rest) :
               (received[c] \o rest)[i] = (received[c] \o mailbox[c])[i]
      BY <1>1, <2>3
    <3>3. Orderly(Stream(c)', Due(c))
      BY <1>0, <1>1, <3>1, <3>2, OrderlyPrefix DEF StreamInv, Stream
    <3>4. Due(c)' = Due(c)
      BY <2>2 DEF Due, Addressed
    <3> QED
      BY <1>0, <2>2, <3>3, <3>4 DEF StreamInv
  <2>7. ASSUME NEW d \in Clients, d # c
        PROVE  StreamInv(d)'
    BY <1>0, <1>1, <2>2, <2>4, <2>7, StreamQuiet
  <2> QED
    BY <2>5, <2>6, <2>7 DEF FeedInv
<1>6. CASE UNCHANGED vars
  BY <1>0, <1>6, StreamQuiet DEF vars, FeedInv, TypeOK
<1> QED
  BY <1>2, <1>3, <1>4, <1>5, <1>6 DEF Next

(* A feed that keeps its promise has no gaps: what a client has received,   *)
(* and what waits for it, is every event due to it up to the last of them.  *)
THEOREM FeedHasNoGaps == Spec => []NoGaps
<1>1. Init => FeedInv
  <2> SUFFICES ASSUME Init PROVE FeedInv
    OBVIOUS
  <2>1. TypeOK
    BY DEF Init, TypeOK
  <2>2. ASSUME NEW c \in Clients PROVE StreamInv(c)
    <3>1. Due(c) = {} /\ joinedAt[c] <= Len(published)
      BY DEF Init, Due
    <3>2. Len(Stream(c)) = 0
      BY DEF Init, Stream
    <3> QED
      BY <3>1, <3>2 DEF StreamInv, Orderly, Complete
  <2> QED
    BY <2>1, <2>2 DEF FeedInv
<1>2. FeedInv => NoGaps
  <2> SUFFICES ASSUME FeedInv, NEW c \in Clients
               PROVE  LET stream == received[c] \o mailbox[c]
                      IN  \A i \in DOMAIN stream :
                            /\ stream[i] \in Due(c)
                            /\ Cardinality({n \in Due(c) : n < stream[i]}) = i - 1
    BY DEF NoGaps
  <2>1. Stream(c) \in Seq(Nat) /\ DOMAIN Stream(c) = 1 .. Len(Stream(c)) /\ Due(c) \in SUBSET Nat
    BY DEF FeedInv, TypeOK, Stream, Due
  <2>2. Orderly(Stream(c), Due(c))
    BY DEF FeedInv, StreamInv
  <2>3. ASSUME NEW i \in 1 .. Len(Stream(c))
        PROVE  /\ Stream(c)[i] \in Due(c)
               /\ Cardinality({n \in Due(c) : n < Stream(c)[i]}) = i - 1
    BY <2>1, <2>2, OrderlyCount DEF Orderly
  <2> QED
    BY <2>1, <2>3 DEF Stream
<1> QED
  BY <1>1, <1>2, FeedStep, PTL DEF Spec
=============================================================================
