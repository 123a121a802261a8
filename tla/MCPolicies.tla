------------------------------- MODULE MCPolicies -------------------------------
EXTENDS Policies, TLC

Symmetry == Permutations(Procs)

MCKind == [reality |-> "reality", masq |-> "masquerade", client |-> "client",
           log |-> "log", second |-> "log", dns |-> "dns", proxy |-> "outbound", spare |-> "outbound", rule |-> "rule"]
MCHome == [x \in DOMAIN MCKind |-> "a"]

Row(enabled, tag, value) ==
    [enabled |-> enabled, tag |-> tag, block |-> FALSE, value |-> value]

NoRefs == [k \in SettingKinds |-> None]
Refs(r, m) == [NoRefs EXCEPT !["reality"] = r, !["masquerade"] = m]
Inbound(s, on, refs) == [server |-> s, enabled |-> on, log |-> None, refs |-> refs]

MCPoliciesAtFirst ==
    [id \in DOMAIN MCKind |->
        CASE id \in {"reality", "masq", "client"} -> Row(TRUE, None, 1)
          [] id \in {"proxy", "rule"} -> Row(TRUE, "proxy", 1)
          [] OTHER -> None]
MCInboundsAtFirst == [i |-> Inbound("a", TRUE, Refs("reality", "masq")),
                      j |-> Inbound("b", TRUE, NoRefs)]
MCAccessAtFirst == [u |-> [inbound |-> "i", client |-> "client"],
                    v |-> [inbound |-> "j", client |-> None]]

Upsert(id, row) == [kind |-> "upsert", id |-> id, row |-> row]
Upserts ==
    {Upsert("reality", Row(TRUE, None, 2)), Upsert("reality", Row(FALSE, None, 1)),
     Upsert("client", Row(TRUE, None, 2)), Upsert("log", Row(TRUE, None, 1)),
     Upsert("second", Row(TRUE, None, 2)), Upsert("dns", Row(TRUE, None, 1)),
     Upsert("proxy", Row(FALSE, "proxy", 1)), Upsert("spare", Row(TRUE, "proxy", 2)),
     Upsert("rule", Row(TRUE, "dns-out", 1)),
     Upsert("rule", [Row(TRUE, "proxy", 1) EXCEPT !.block = TRUE])}

MCInboundRequests ==
    {[kind |-> "inbound", id |-> "j", row |-> Inbound("b", TRUE, Refs("reality", None))],
     [kind |-> "inbound", id |-> "j", row |-> Inbound("a", TRUE, Refs("reality", None))],
     [kind |-> "inbound", id |-> "i", row |-> Inbound("a", FALSE, Refs("reality", None))]}

MCRequests ==
         Upserts
    \cup [kind : {"delete", "remove"}, id : Policies]
    \cup MCInboundRequests
    \cup {[kind |-> "access", id |-> "v", client |-> "client"]}
    \cup [kind : {"validate"}, id : {"a"}]
    \cup [kind : {"document"}, id : Users]
===============================================================================
