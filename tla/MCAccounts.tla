------------------------------ MODULE MCAccounts ------------------------------
(***************************************************************************)
(* A small instance of Accounts: two people, two browsers, three sign-ins, *)
(* two requests served at the same time, and one notification.             *)
(***************************************************************************)
EXTENDS Accounts, TLC

Symmetry ==
  UNION {Permutations(S) : S \in {Browsers, People, UserIds, States, Requests, Notices}}

=============================================================================
