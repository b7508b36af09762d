----------------------------- MODULE MCAccounts -----------------------------
(***************************************************************************)
(* Instances of Accounts for TLC: the sizes of the buckets.                *)
(***************************************************************************)
EXTENDS Accounts, TLC

(* The bucket of the address holds more than the one of an account.         *)
SmallBuckets == [k \in Keys |-> IF k = IP THEN 2 ELSE 1]

Symmetry ==
  Permutations(Requests) \cup Permutations(Links) \cup Permutations(Passwords \ Weak)
=============================================================================
