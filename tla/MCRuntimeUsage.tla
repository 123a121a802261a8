---------------------------- MODULE MCRuntimeUsage ----------------------------
(* Instances of RuntimeUsage for TLC. *)
EXTENDS RuntimeUsage, Functions, TLC

Symmetry == Permutations(Users) \cup Permutations(Names) \cup Permutations(Pids)

\* The footing is not regained, and no guard and no property looks at the amounts
\* and the snapshot of a user that has lost it, or at how much was counted for it.
\* States that differ in these alone are one, and so are those in which every
\* user has lost it.
Amounts(f) == [u \in Users |-> IF u \in doubtful THEN 0 ELSE f[u]]
Counts(f, config) == [n \in Names |-> IF config[n] \in doubtful /\ f[n] > 0 THEN 1 ELSE f[n]]
View ==
    IF doubtful = Users THEN <<>>
    ELSE <<name, access, Restrict(snapshot, DOMAIN snapshot \ doubtful), serves, pids,
           Counts(counter, serves), doubtful, Amounts(used), Amounts(actual), Amounts(covered),
           [poll EXCEPT !.base = Amounts(@), !.stats = Counts(@, poll.serves)]>>
=============================================================================
