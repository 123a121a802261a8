-------------------------- MODULE ConfigDeployment --------------------------
(***************************************************************************)
(* What the revision workflow promises about the host, whatever requests   *)
(* interleave, fail or die: a configuration is published once (stored as a *)
(* revision), only published configurations are ever written to a unit's   *)
(* file, the service only ever loads what its file holds, and a revision   *)
(* becomes current only after its content has been in some unit's file.    *)
(* ConfigRevisions implements this module (Deployment there).              *)
(***************************************************************************)
CONSTANTS Servers, Units, Configs, None

VARIABLES
    published,  \* configurations stored as revisions so far
    installed,  \* installed[u]: configurations file[u] has held so far
    file,       \* file[u]: what the unit's config path holds
    running,    \* running[u]: what the service has loaded, None if stopped
    current     \* current[s]: content of the server's current revision, if any

vars == <<published, installed, file, running, current>>

Init ==
    /\ published = {}
    /\ installed = [u \in Units |-> {}]
    /\ file = [u \in Units |-> None]
    /\ running = [u \in Units |-> None]
    /\ current = [s \in Servers |-> {}]

Publish(c) ==
    /\ published' = published \cup {c}
    /\ UNCHANGED <<installed, file, running, current>>

Install(u) ==
    /\ \E c \in published :
          /\ file' = [file EXCEPT ![u] = c]
          /\ installed' = [installed EXCEPT ![u] = @ \cup {c}]
    /\ UNCHANGED <<published, running, current>>

Load(u) ==
    /\ \E c \in {file[u], None} : running' = [running EXCEPT ![u] = c]
    /\ UNCHANGED <<published, installed, file, current>>

Promote(s) ==
    /\ \E u \in Units : \E c \in installed[u] : current' = [current EXCEPT ![s] = {c}]
    /\ UNCHANGED <<published, installed, file, running>>

Retire(s) ==
    /\ current' = [current EXCEPT ![s] = {}]
    /\ UNCHANGED <<published, installed, file, running>>

Next ==
    \/ \E c \in Configs : Publish(c)
    \/ \E u \in Units : Install(u) \/ Load(u)
    \/ \E s \in Servers : Promote(s) \/ Retire(s)

Spec == Init /\ [][Next]_vars
=============================================================================
