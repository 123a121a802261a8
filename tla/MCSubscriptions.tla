--------------------------- MODULE MCSubscriptions ---------------------------
(* Instances of Subscriptions for TLC. *)
EXTENDS Subscriptions, TLC

Symmetry == Permutations(Procs) \cup Permutations(Tokens) \cup Permutations(Clients)
=============================================================================
