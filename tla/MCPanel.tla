------------------------------- MODULE MCPanel -------------------------------
(* Instances of Panel for TLC. *)
EXTENDS Panel, TLC

CONSTANTS e1, i1, i2, t1, t2

Of(id) == [Empty EXCEPT !.admins = [e \in Emails |-> id]]

\* bootstrap-admin has run, and the administrator has logged in.
MCInitial == [Of(i1) EXCEPT !.sessions = t1 :> [admin |-> i1, expires |-> 2]]

\* All connections but the first are alike.
Symmetric == Permutations(Procs) \cup Permutations(Conns \ {Enforcing})

\* The backup of another installation, one from before bootstrap-admin, and a file of
\* another program.
MCForeign == {Of(i2), Empty, [Empty EXCEPT !.tables = FALSE]}
=============================================================================
