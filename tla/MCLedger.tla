------------------------------ MODULE MCLedger ------------------------------
(***************************************************************************)
(* Instances of Ledger for TLC.  Users are interchangeable.                *)
(***************************************************************************)
EXTENDS Ledger

Symmetry == Permutations(Users)

\* A limit of zero is raised to one, one of five cut to MaxLimit.
MCWalks ==
  {[filter |-> "settled", sort |-> "newest", limit |-> 0],
   [filter |-> "won", sort |-> "popular", limit |-> 1],
   [filter |-> "active", sort |-> "popular", limit |-> 5]}
=============================================================================
