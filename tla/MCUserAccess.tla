----------------------------- MODULE MCUserAccess -----------------------------
(* Instances of UserAccess for TLC. *)
EXTENDS UserAccess, TLC

CONSTANTS s1, s2, u1, u2, i1, i2, i3, a1, a2, a3, a4, n1, n2

\* The first server has its vless inbound, the second a Hysteria2 one; the first
\* user has access to both.
MCInbounds ==
    i1 :> [server |-> s1, protocol |-> "vless", tag |-> "vless", enabled |-> TRUE] @@
    i2 :> [server |-> s2, protocol |-> "hysteria2", tag |-> "other", enabled |-> TRUE]
MCUsers == u1 :> [name |-> n1, active |-> TRUE]
MCAccess ==
    a1 :> [user |-> u1, inbound |-> i1, enabled |-> TRUE, vless |-> 1, hysteria2 |-> 0] @@
    a2 :> [user |-> u1, inbound |-> i2, enabled |-> TRUE, vless |-> 0, hysteria2 |-> 2]

Of(kind) == [NoRequest EXCEPT !.kind = kind]
Named(n) == [NoPatch EXCEPT !.name = n]
Switch(b) == [NoPatch EXCEPT !.active = b]
Delete == [NoPatch EXCEPT !.hard = TRUE]
Move(i) == [NoPatch EXCEPT !.to = i]
Profile == [NoPatch EXCEPT !.profile = TRUE]
Rotate == [NoPatch EXCEPT !.rotate = TRUE]

Creations == {[Of(k) EXCEPT !.patch = Named(n)] : k \in {"provision", "create"}, n \in {n1, n2}}
Updates ==
    {[Of("update") EXCEPT !.user = u1, !.patch = c] : c \in {Named(n2), Switch(FALSE)}}
Removals ==
    {[Of("deleteUser") EXCEPT !.user = u1], [Of("render") EXCEPT !.user = u1],
     [Of("bulkDelete") EXCEPT !.users = {u1}],
     [Of("bulkEnable") EXCEPT !.users = {u1}, !.patch = Switch(FALSE)]}
Grants ==
    {[Of("grant") EXCEPT !.user = u1, !.inbound = i, !.access = a] :
        i \in {i1, i2}, a \in {None, a1}}
    \cup {[Of("withdraw") EXCEPT !.access = a] : a \in {a1, a2}}
OfInbounds ==
    {[Of("updateInbound") EXCEPT !.inbound = i1, !.patch = c] :
        c \in {Switch(FALSE), [NoPatch EXCEPT !.protocol = "hysteria2"]}}
    \cup {[Of("deleteInbound") EXCEPT !.inbound = i] : i \in {i1, i2}}
Bulk ==
    {[Of("bulkUsers") EXCEPT !.users = {u1}, !.patch = c] :
        c \in {Delete, Switch(FALSE), Move(i1), Profile}}
    \cup {[Of("bulkAccess") EXCEPT !.accesses = as, !.patch = c] :
        as \in {{a1, a2}}, c \in {NoPatch, Delete, Switch(FALSE), Move(i2), Rotate}}

MCRequests == Creations \cup Updates \cup Removals \cup Grants \cup OfInbounds \cup Bulk
=============================================================================
