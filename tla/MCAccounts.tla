---- MODULE MCAccounts ----
(* Instances of Accounts: model values for ids and addresses.              *)
EXTENDS Accounts, TLC

Symmetry == Permutations(Slots) \union Permutations(Visitors) \union Permutations(Emails)

====
